---- MODULE Spec2Model ----
(***************************************************************************)
(* Model of src/app.py: the Flash Flood Warning & Rainfall Tracker script.  *)
(*                                                                         *)
(* The script is one top-to-bottom run (fetch, filter, viewport, map       *)
(* layers, panel) around two pure helpers, feature_matches_county_state    *)
(* and compute_initial_map_center.  Both helpers work on decoded JSON, so   *)
(* the model carries JSON values as tagged records and gives the Python    *)
(* operations the helpers use (dict.get, indexing, iteration, truthiness,  *)
(* str.lower, str.strip, the in operator, sum, unpacking) their Python      *)
(* outcomes, an exception being the value RAISE.                           *)
(*                                                                         *)
(* Numbers are exact rationals n/d in lowest terms; the rounding of Python *)
(* floats is not modelled.  Strings are sequences of characters.           *)
(***************************************************************************)
EXTENDS Integers, Sequences, FiniteSets, TLC

VARIABLES
    pc,             \* position of the script run
    county_query,   \* sidebar text input (src/app.py:48)
    state_query,    \* sidebar select box (src/app.py:49)
    show_p1h,       \* sidebar check box (src/app.py:52)
    show_p24h,      \* sidebar check box (src/app.py:53)
    alerts_geojson, \* what the fetch returned (src/app.py:142)
    all_features,   \* src/app.py:148
    features,       \* src/app.py:149
    center,         \* (center_lat, center_lon, zoom) of src/app.py:156
    map_layers,     \* layers added to the folium map, in order
    alert_layer,    \* the features handed to the GeoJson layer
    tooltip,        \* the tooltip's fields, or "None"
    panel,          \* what the warnings panel shows
    map_shown,      \* st_folium rendered the map
    error_shown,    \* st.error was called
    fn_args,        \* arguments of a direct call of a helper
    fn_ret          \* what that call returned

vars == <<pc, county_query, state_query, show_p1h, show_p24h, alerts_geojson,
          all_features, features, center, map_layers, alert_layer, tooltip,
          panel, map_shown, error_shown, fn_args, fn_ret>>

(***************************************************************************)
(* JSON values as Python sees them after resp.json().                      *)
(***************************************************************************)
JNull == [k |-> "null"]
JRat(n, d) == [k |-> "num", n |-> n, d |-> d]
JNum(n) == JRat(n, 1)
JStr(s) == [k |-> "str", s |-> s]
JList(items) == [k |-> "list", items |-> items]
JMap(m) == [k |-> "map", m |-> m]
EmptyDict == JMap([key \in {} |-> JNull])

\* A variable the run has not assigned yet.
Unset == [k |-> "unset"]

\* An exception propagating out of an expression.
RAISE == [k |-> "raise"]
Raised(v) == v.k = "raise"

\* bool(v)
Truthy(v) ==
    CASE v.k = "null" -> FALSE
      [] v.k = "num" -> v.n # 0
      [] v.k = "str" -> v.s # <<>>
      [] v.k = "list" -> v.items # <<>>
      [] v.k = "map" -> DOMAIN v.m # {}
      [] OTHER -> FALSE

\* obj.get(key, default): only a dict has .get (AttributeError otherwise).
Get(obj, key, default) ==
    IF obj.k # "map" THEN RAISE
    ELSE IF key \in DOMAIN obj.m THEN obj.m[key] ELSE default

\* a or b
Or(a, b) == IF Truthy(a) THEN a ELSE b

\* obj[i] for an integer i >= 0: IndexError past the end of a list or str,
\* KeyError on a dict (its keys are strings), TypeError on None or a number.
Index(obj, i) ==
    CASE obj.k = "list" -> IF i < Len(obj.items) THEN obj.items[i + 1] ELSE RAISE
      [] obj.k = "str" -> IF i < Len(obj.s) THEN JStr(<<obj.s[i + 1]>>) ELSE RAISE
      [] OTHER -> RAISE

RECURSIVE SetToSeq(_)
SetToSeq(S) ==
    IF S = {} THEN <<>>
    ELSE LET x == CHOOSE y \in S : TRUE IN <<x>> \o SetToSeq(S \ {x})

\* The elements "for x in obj" visits, as a list (TypeError on None or a
\* number).  A dict yields its keys, kept as opaque one-symbol strings.
Iter(obj) ==
    CASE obj.k = "list" -> obj
      [] obj.k = "str" -> JList([i \in 1..Len(obj.s) |-> JStr(<<obj.s[i]>>)])
      [] obj.k = "map" -> LET ks == SetToSeq(DOMAIN obj.m)
                          IN JList([i \in 1..Len(ks) |-> JStr(<<ks[i]>>)])
      [] OTHER -> RAISE

(***************************************************************************)
(* Strings.                                                                *)
(***************************************************************************)
\* str.lower() on the characters the model uses.
LowerChar(c) ==
    CASE c = "A" -> "a"
      [] c = "L" -> "l"
      [] c = "T" -> "t"
      [] c = "X" -> "x"
      [] OTHER -> c

Lower(s) == [i \in 1..Len(s) |-> LowerChar(s[i])]

IsSpace(c) == c = " "

\* str.strip(): drops leading and trailing whitespace.
RECURSIVE LStrip(_)
LStrip(s) == IF s # <<>> /\ IsSpace(Head(s)) THEN LStrip(Tail(s)) ELSE s

RECURSIVE RStrip(_)
RStrip(s) ==
    IF s # <<>> /\ IsSpace(s[Len(s)]) THEN RStrip(SubSeq(s, 1, Len(s) - 1)) ELSE s

Strip(s) == RStrip(LStrip(s))

\* a in b, for two str
Contains(a, b) ==
    \E i \in 0..(Len(b) - Len(a)) : SubSeq(b, i + 1, i + Len(a)) = a

\* The select box's first entry (src/app.py:49, compared at :76 and :84).
AnyLabel == <<"(", "A", "n", "y", ")">>

(***************************************************************************)
(* feature_matches_county_state (src/app.py:74-86).  The result is         *)
(* [o |-> "return", v |-> BOOLEAN] or RAISE.                               *)
(***************************************************************************)
Return(v) == [o |-> "return", v |-> v, k |-> "ok"]

\* The early return of line 76.
NoFilter(county_q, state_q) ==
    ~Truthy(county_q) /\ (~Truthy(state_q) \/ state_q = JStr(AnyLabel))

\* AreaDescOf without the .lower() of line 79.
AreaDescOfNoLower(feature) ==
    LET props == Get(feature, "properties", EmptyDict) IN
    IF Raised(props) THEN RAISE
    ELSE LET got == Get(props, "areaDesc", JNull) IN
         IF Raised(got) THEN RAISE
         ELSE LET val == Or(got, JStr(<<>>)) IN
              IF val.k # "str" THEN RAISE ELSE JStr(val.s)

\* lines 78-79
AreaDescOf(feature) ==
    LET props == Get(feature, "properties", EmptyDict) IN
    IF Raised(props) THEN RAISE
    ELSE LET got == Get(props, "areaDesc", JNull) IN
         IF Raised(got) THEN RAISE
         ELSE LET val == Or(got, JStr(<<>>)) IN
              IF val.k # "str" THEN RAISE ELSE JStr(Lower(val.s))

feature_matches_county_state(feature, county_q, state_q) ==
    IF NoFilter(county_q, state_q) THEN Return(TRUE)
    ELSE
      LET area_desc == AreaDescOf(feature) IN
      IF Raised(area_desc) THEN RAISE
      \* .strip() and .lower() exist on str only
      ELSE IF Truthy(county_q) /\ county_q.k # "str" THEN RAISE
      ELSE
        LET county_ok == IF Truthy(county_q)
                         THEN Contains(Lower(Strip(county_q.s)), area_desc.s)
                         ELSE TRUE
            state_checked == Truthy(state_q) /\ state_q # JStr(AnyLabel)
        IN IF state_checked /\ state_q.k # "str" THEN RAISE
           ELSE LET state_ok == IF state_checked
                                THEN Contains(Lower(state_q.s), area_desc.s)
                                ELSE TRUE
                IN Return(county_ok /\ state_ok)

(***************************************************************************)
(* Arithmetic on rationals in lowest terms.                                *)
(***************************************************************************)
Abs(n) == IF n < 0 THEN -n ELSE n

RECURSIVE Gcd(_, _)
Gcd(a, b) == IF b = 0 THEN a ELSE Gcd(b, a % b)

\* n/d in lowest terms, for d > 0
Norm(n, d) ==
    LET g == Gcd(Abs(n), d) IN JRat(n \div g, d \div g)

Add(a, b) == Norm(a.n * b.d + b.n * a.d, a.d * b.d)

DivInt(a, n) == Norm(a.n, a.d * n)

\* sum(c[idx] for c in coords), coords already turned into the sequence the
\* loop visits: TypeError when an element is not a number, and whatever
\* c[idx] raises.
RECURSIVE SumFrom(_, _, _, _)
SumFrom(cs, idx, i, acc) ==
    IF i > Len(cs) THEN acc
    ELSE LET e == Index(cs[i], idx) IN
         IF Raised(e) \/ e.k # "num" THEN RAISE
         ELSE SumFrom(cs, idx, i + 1, Add(acc, e))

SumOf(coords, idx) ==
    LET cs == Iter(coords) IN
    IF Raised(cs) THEN RAISE ELSE SumFrom(cs.items, idx, 1, JNum(0))

\* len(obj), for the containers that reach it
PyLen(obj) ==
    CASE obj.k = "list" -> Len(obj.items)
      [] obj.k = "str" -> Len(obj.s)
      [] OTHER -> Cardinality(DOMAIN obj.m)

(***************************************************************************)
(* compute_initial_map_center (src/app.py:88-115).                         *)
(***************************************************************************)
TPolygon == <<"P", "o", "l", "y", "g", "o", "n">>
TMultiPolygon == <<"M", "u", "l", "t", "i">> \o TPolygon
TPoint == <<"P", "o", "i", "n", "t">>
TLineString == <<"L", "i", "n", "e", "S", "t", "r", "i", "n", "g">>

FeatureZoom == 6
FallbackZoom == 4
FallbackLat == JRat(39833, 1000)
FallbackLon == JRat(-98583, 1000)

Viewport(lat, lon, zoom) == [lat |-> lat, lon |-> lon, zoom |-> zoom]
Fallback == Viewport(FallbackLat, FallbackLon, FallbackZoom)

\* The body of a loop iteration falls through to the next feature.
NextFeature == [o |-> "next", k |-> "ok"]

\* lines 100-102 and 107-109: the mean of the ring's vertices
RingCenter(coords) ==
    LET slon == SumOf(coords, 0) IN
    IF Raised(slon) THEN RAISE
    ELSE LET slat == SumOf(coords, 1) IN
         IF Raised(slat) THEN RAISE
         ELSE Return(Viewport(DivInt(slat, PyLen(coords)),
                              DivInt(slon, PyLen(coords)), FeatureZoom))

\* lines 98-102
PolygonBranch(geom) ==
    LET coords == Index(Get(geom, "coordinates", JList(<<>>)), 0) IN
    IF Raised(coords) THEN RAISE
    ELSE IF Truthy(coords) THEN RingCenter(coords)
    ELSE NextFeature

\* lines 104-109
MultiPolygonBranch(geom) ==
    LET polys == Get(geom, "coordinates", JList(<<>>)) IN
    IF ~Truthy(polys) THEN NextFeature
    ELSE LET p0 == Index(polys, 0) IN
         IF Raised(p0) THEN RAISE
         ELSE IF ~Truthy(p0) THEN NextFeature
         ELSE LET p00 == Index(p0, 0) IN
              IF Raised(p00) THEN RAISE
              ELSE IF ~Truthy(p00) THEN NextFeature
              ELSE RingCenter(p00)

\* lines 111-112: the unpacking needs exactly two elements (ValueError) of
\* something iterable (TypeError); the elements are returned as they are.
PointBranch(geom) ==
    LET cs == Iter(Get(geom, "coordinates",
                       JList(<<FallbackLon, FallbackLat>>))) IN
    IF Raised(cs) THEN RAISE
    ELSE IF Len(cs.items) # 2 THEN RAISE
    ELSE Return(Viewport(cs.items[2], cs.items[1], FeatureZoom))

\* FeatureStep with a geometry of another type ending the loop.
FeatureStepStopsAtUnknown(feat) ==
    LET g == Get(feat, "geometry", JNull) IN
    IF Raised(g) THEN RAISE
    ELSE LET geom == Or(g, EmptyDict)
             gtype == Get(geom, "type", JNull)
         IN IF Raised(gtype) THEN RAISE
            ELSE IF gtype = JStr(TPolygon) THEN PolygonBranch(geom)
            ELSE IF gtype = JStr(TMultiPolygon) THEN MultiPolygonBranch(geom)
            ELSE IF gtype = JStr(TPoint) THEN PointBranch(geom)
            ELSE IF Truthy(geom) THEN RAISE
            ELSE NextFeature

\* lines 95-112: one iteration of the loop
FeatureStep(feat) ==
    LET g == Get(feat, "geometry", JNull) IN
    IF Raised(g) THEN RAISE
    ELSE LET geom == Or(g, EmptyDict)
             gtype == Get(geom, "type", JNull)
         IN IF Raised(gtype) THEN RAISE
            ELSE IF gtype = JStr(TPolygon) THEN PolygonBranch(geom)
            ELSE IF gtype = JStr(TMultiPolygon) THEN MultiPolygonBranch(geom)
            ELSE IF gtype = JStr(TPoint) THEN PointBranch(geom)
            ELSE NextFeature

\* lines 94-112: the loop, from the i-th feature on
RECURSIVE CenterLoop(_, _)
CenterLoop(feats, i) ==
    IF i > Len(feats) THEN NextFeature
    ELSE LET r == FeatureStep(feats[i]) IN
         IF Raised(r) THEN RAISE
         ELSE IF r.o = "return" THEN r
         ELSE CenterLoop(feats, i + 1)

\* lines 93-112: what the try block does
CenterTry(geojson) ==
    LET fs == Get(geojson, "features", JList(<<>>)) IN
    IF Raised(fs) THEN RAISE
    ELSE LET it == Iter(fs) IN
         IF Raised(it) THEN RAISE ELSE CenterLoop(it.items, 1)

\* compute_initial_map_center without the except clause of line 113.
ComputeCenterUnguarded(geojson) ==
    LET r == CenterTry(geojson) IN
    IF Raised(r) THEN RAISE
    ELSE IF r.o = "return" THEN r.v ELSE Fallback

\* lines 88-115
compute_initial_map_center(geojson) ==
    LET r == CenterTry(geojson) IN
    IF ~Raised(r) /\ r.o = "return" THEN r.v ELSE Fallback

(***************************************************************************)
(* Inputs.  Features are drawn from small sets that cover the shapes the   *)
(* code distinguishes; collections are the sequences of them up to a bound.*)
(***************************************************************************)
MaxFeatures == 2
MaxAreaLen == 3
MaxQueryLen == 2
MaxFeed == 2

SeqsUpTo(S, n) == UNION {[1..m -> S] : m \in 0..n}

Vertex(lon, lat) == JList(<<JNum(lon), JNum(lat)>>)
Ring(vs) == JList(vs)

ExampleRing ==
    Ring(<<Vertex(-97, 30), Vertex(-96, 30), Vertex(-96, 31), Vertex(-97, 31)>>)
OneRing == Ring(<<Vertex(-95, 29)>>)
ThreeRing == Ring(<<Vertex(-97, 30), Vertex(-96, 30), Vertex(-96, 31)>>)
EmptyRing == Ring(<<>>)
\* malformed rings: a non-numeric vertex, a vertex of one number, a null vertex
TextRing == Ring(<<JList(<<JStr(<<"a">>), JNum(30)>>)>>)
ShortRing == Ring(<<JList(<<JNum(5)>>)>>)
NullRing == Ring(<<Vertex(-97, 30), JNull>>)

Geometry(type, coordinates) ==
    JMap([type |-> JStr(type), coordinates |-> coordinates])
GeometryNoCoords(type) == JMap([type |-> JStr(type)])
Feature(geom) == JMap([type |-> JStr(<<"F">>), geometry |-> geom])

GoodRings == {ExampleRing, OneRing, ThreeRing}
BadRings == {TextRing, ShortRing, NullRing}

PolygonGeoms ==
    {Geometry(TPolygon, JList(<<r>>)) : r \in GoodRings \cup BadRings \cup {EmptyRing}}
    \cup {Geometry(TPolygon, JList(<<OneRing, ExampleRing>>)),  \* a hole: ignored
          Geometry(TPolygon, JList(<<>>)),                      \* no ring at all
          Geometry(TPolygon, JNull),
          GeometryNoCoords(TPolygon)}

MultiPolygonGeoms ==
    {Geometry(TMultiPolygon, JList(<<JList(<<r>>)>>)) :
        r \in {ExampleRing, ThreeRing, TextRing, EmptyRing}}
    \cup {Geometry(TMultiPolygon, JList(<<JList(<<OneRing>>), JList(<<ExampleRing>>)>>)),
          Geometry(TMultiPolygon, JList(<<>>)),
          Geometry(TMultiPolygon, JList(<<JList(<<>>)>>)),
          Geometry(TMultiPolygon, JNum(5)),
          GeometryNoCoords(TMultiPolygon)}

PointGeoms ==
    {Geometry(TPoint, Vertex(-95, 29)),
     GeometryNoCoords(TPoint),
     Geometry(TPoint, JList(<<>>)),
     Geometry(TPoint, JList(<<JNum(1), JNum(2), JNum(3)>>)),
     Geometry(TPoint, JList(<<JStr(<<"a">>), JStr(<<"b">>)>>)),
     Geometry(TPoint, JNull)}

OtherGeoms ==
    {Geometry(TLineString, JList(<<Vertex(-97, 30), Vertex(-96, 31)>>)),
     JMap([coordinates |-> Vertex(-95, 29)]),   \* no type
     JNull,
     JNum(5)}

CenterFeatures ==
    {Feature(g) : g \in PolygonGeoms \cup MultiPolygonGeoms \cup PointGeoms \cup OtherGeoms}
    \cup {JMap([type |-> JStr(<<"F">>)]),        \* no geometry key
          JNull}                                 \* not a mapping

FeatureCollection(feats) ==
    JMap([type |-> JStr(<<"F", "C">>), features |-> feats])

CenterInputs ==
    {FeatureCollection(JList(fs)) : fs \in SeqsUpTo(CenterFeatures, MaxFeatures)}
    \cup {JMap([type |-> JStr(<<"F", "C">>)]),   \* no features key
          FeatureCollection(JNull),
          FeatureCollection(JNum(5)),
          FeatureCollection(JStr(<<"a", "b">>)),
          JNull,
          JList(<<>>)}

Alphabet == {"t", "X", " "}

Properties(areaDesc) == JMap([headline |-> JStr(<<"h">>), areaDesc |-> areaDesc])
WithProperties(props) == JMap([type |-> JStr(<<"F">>), properties |-> props])

MatchFeatures ==
    {WithProperties(Properties(JStr(a))) : a \in SeqsUpTo(Alphabet, MaxAreaLen)}
    \cup {WithProperties(Properties(JNull)),
          WithProperties(Properties(JNum(5))),
          WithProperties(Properties(JNum(0))),
          WithProperties(JMap([headline |-> JStr(<<"h">>)])),   \* no areaDesc
          WithProperties(EmptyDict),
          WithProperties(JNull),
          WithProperties(JList(<<>>)),
          WithProperties(JStr(<<"t">>)),
          JMap([type |-> JStr(<<"F">>)]),                      \* no properties key
          JNull}

CountyQueries == {JNull} \cup {JStr(q) : q \in SeqsUpTo(Alphabet, MaxQueryLen)}

StateQueries ==
    {JNull, JStr(<<>>), JStr(AnyLabel), JStr(<<"T", "X">>), JStr(<<"X">>), JStr(<<"t">>)}

(***************************************************************************)
(* Direct calls of the two helpers.                                        *)
(***************************************************************************)
Idle ==
    /\ county_query = Unset /\ state_query = Unset
    /\ show_p1h = FALSE /\ show_p24h = FALSE
    /\ alerts_geojson = Unset /\ all_features = Unset /\ features = Unset
    /\ center = Unset /\ map_layers = <<>> /\ alert_layer = Unset
    /\ tooltip = Unset /\ panel = Unset /\ map_shown = FALSE
    /\ error_shown = FALSE

runVars == <<county_query, state_query, show_p1h, show_p24h, alerts_geojson,
             all_features, features, center, map_layers, alert_layer, tooltip,
             panel, map_shown, error_shown>>

InitCenter ==
    /\ pc = "call"
    /\ fn_args \in {<<g>> : g \in CenterInputs}
    /\ fn_ret = Unset
    /\ Idle

CallCenter ==
    /\ pc = "call"
    /\ Len(fn_args) = 1
    /\ fn_ret' = compute_initial_map_center(fn_args[1])
    /\ pc' = "returned"
    /\ UNCHANGED <<fn_args, runVars>>

SpecCenter == InitCenter /\ [][CallCenter]_vars

InitMatch ==
    /\ pc = "call"
    /\ fn_args \in {<<f, c, s>> : f \in MatchFeatures, c \in CountyQueries, s \in StateQueries}
    /\ fn_ret = Unset
    /\ Idle

CallMatch ==
    /\ pc = "call"
    /\ Len(fn_args) = 3
    /\ fn_ret' = feature_matches_county_state(fn_args[1], fn_args[2], fn_args[3])
    /\ pc' = "returned"
    /\ UNCHANGED <<fn_args, runVars>>

SpecMatch == InitMatch /\ [][CallMatch]_vars

(***************************************************************************)
(* The script run (src/app.py:140-230).                                    *)
(***************************************************************************)
AreaTX == <<"t", " ", "T", "X">>
AreaAL == <<"X", " ", "A", "L">>

FullFeature(props, geom) ==
    JMap([type |-> JStr(<<"F">>), properties |-> props, geometry |-> geom])

RunGeoms ==
    {Geometry(TPoint, Vertex(-95, 29)),
     Geometry(TPolygon, JList(<<ExampleRing>>)),
     Geometry(TPolygon, JList(<<>>)),
     Geometry(TLineString, JList(<<Vertex(-97, 30), Vertex(-96, 31)>>))}

RunFeatures ==
    {FullFeature(Properties(JStr(a)), g) : a \in {AreaTX, AreaAL}, g \in RunGeoms}
    \cup {FullFeature(JNull, Geometry(TPoint, Vertex(-95, 29))),
          Feature(Geometry(TPolygon, JList(<<ExampleRing>>))),   \* no properties key
          JNull}

\* What resp.json() can hand back.
Feeds ==
    {FeatureCollection(JList(fs)) : fs \in SeqsUpTo(RunFeatures, MaxFeed)}
    \cup {JMap([type |-> JStr(<<"F", "C">>)]),
          FeatureCollection(JNull),
          JNull}

\* text_input gives any str; the select box gives "(Any)" or an abbreviation
\* of STATE_ABBRS (src/app.py:37-42), of which the model keeps two.
CountyChoices == {JStr(<<>>), JStr(<<"t">>), JStr(<<" ", "X", " ">>), JStr(<<"t", "t">>)}
StateChoices == {JStr(AnyLabel), JStr(<<"T", "X">>), JStr(<<"A", "L">>)}

fnVars == <<fn_args, fn_ret>>

InitRun ==
    /\ pc = "fetch"
    /\ county_query \in CountyChoices
    /\ state_query \in StateChoices
    /\ show_p1h \in BOOLEAN
    /\ show_p24h \in BOOLEAN
    /\ alerts_geojson = Unset /\ all_features = Unset /\ features = Unset
    /\ center = Unset /\ map_layers = <<>> /\ alert_layer = Unset
    /\ tooltip = Unset /\ panel = Unset /\ map_shown = FALSE
    /\ error_shown = FALSE
    /\ fn_args = <<>> /\ fn_ret = Unset

\* lines 140-142: the fetch returns (from the network or from the cache)
FetchReturns ==
    /\ pc = "fetch"
    /\ \E g \in Feeds : alerts_geojson' = g
    /\ pc' = "filter"
    /\ UNCHANGED <<county_query, state_query, show_p1h, show_p24h, all_features,
                   features, center, map_layers, alert_layer, tooltip, panel,
                   map_shown, error_shown, fnVars>>

\* FetchRaises without the st.stop() of line 145.
FetchRaisesNoStop ==
    /\ pc = "fetch"
    /\ error_shown' = TRUE
    /\ pc' = "filter"
    /\ UNCHANGED <<county_query, state_query, show_p1h, show_p24h, alerts_geojson,
                   all_features, features, center, map_layers, alert_layer,
                   tooltip, panel, map_shown, fnVars>>

\* lines 143-145: the fetch raises; st.error, then st.stop ends the run
FetchRaises ==
    /\ pc = "fetch"
    /\ error_shown' = TRUE
    /\ pc' = "stopped"
    /\ UNCHANGED <<county_query, state_query, show_p1h, show_p24h, alerts_geojson,
                   all_features, features, center, map_layers, alert_layer,
                   tooltip, panel, map_shown, fnVars>>

\* FilterLoop putting each accepted feature in front of the list.
RECURSIVE FilterLoopReversed(_, _, _, _, _)
FilterLoopReversed(fs, county_q, state_q, i, acc) ==
    IF i > Len(fs) THEN JList(acc)
    ELSE LET r == feature_matches_county_state(fs[i], county_q, state_q) IN
         IF Raised(r) THEN RAISE
         ELSE FilterLoopReversed(fs, county_q, state_q, i + 1,
                                 IF r.v THEN <<fs[i]>> \o acc ELSE acc)

\* lines 149-151: the list comprehension, from the i-th element on
RECURSIVE FilterLoop(_, _, _, _, _)
FilterLoop(fs, county_q, state_q, i, acc) ==
    IF i > Len(fs) THEN JList(acc)
    ELSE LET r == feature_matches_county_state(fs[i], county_q, state_q) IN
         IF Raised(r) THEN RAISE
         ELSE FilterLoop(fs, county_q, state_q, i + 1,
                         IF r.v THEN Append(acc, fs[i]) ELSE acc)

FilterFeatures(all, county_q, state_q) ==
    LET it == Iter(all) IN
    IF Raised(it) THEN RAISE
    ELSE FilterLoop(it.items, county_q, state_q, 1, <<>>)

\* lines 148-151; an exception ends the run with nothing rendered
Filter ==
    /\ pc = "filter"
    /\ LET all == Get(alerts_geojson, "features", JList(<<>>)) IN
       IF Raised(all)
       THEN /\ pc' = "crashed"
            /\ UNCHANGED <<all_features, features>>
       ELSE /\ all_features' = all
            /\ LET fl == FilterFeatures(all, county_query, state_query) IN
               IF Raised(fl)
               THEN pc' = "crashed" /\ UNCHANGED features
               ELSE pc' = "center" /\ features' = fl
    /\ UNCHANGED <<county_query, state_query, show_p1h, show_p24h, alerts_geojson,
                   center, map_layers, alert_layer, tooltip, panel, map_shown,
                   error_shown, fnVars>>

\* lines 156-160
Center ==
    /\ pc = "center"
    /\ center' = compute_initial_map_center(
                     FeatureCollection(Or(features, all_features)))
    /\ map_layers' = <<"CartoDB positron">>
    /\ pc' = "layers"
    /\ UNCHANGED <<county_query, state_query, show_p1h, show_p24h, alerts_geojson,
                   all_features, features, alert_layer, tooltip, panel,
                   map_shown, error_shown, fnVars>>

\* line 172
desired_fields ==
    <<"headline", "areaDesc", "severity", "certainty", "effective", "expires">>

\* lines 169-189: the fields of the tooltip as a list, JNull for None.  The
\* test "f in sample_props" is a key test on a dict and a TypeError on a
\* number; the strings and lists of the model hold no field name.
Tooltip(feats) ==
    IF ~Truthy(feats) THEN JNull
    ELSE LET got == Get(feats.items[1], "properties", JNull) IN
         IF Raised(got) THEN RAISE
         ELSE LET sample_props == Or(got, EmptyDict) IN
              IF sample_props.k = "num" THEN RAISE
              ELSE LET fields == SelectSeq(desired_fields,
                                           LAMBDA f : /\ sample_props.k = "map"
                                                      /\ f \in DOMAIN sample_props.m)
                   IN IF fields # <<>> THEN JList(fields) ELSE JNull

\* lines 163-166
Overlays ==
    (IF show_p24h THEN <<"mrms_p24h">> ELSE <<>>)
    \o (IF show_p1h THEN <<"mrms_p1h">> ELSE <<>>)

\* lines 163-200
Layers ==
    /\ pc = "layers"
    /\ LET tip == Tooltip(features) IN
       IF Raised(tip)
       THEN /\ map_layers' = map_layers \o Overlays
            /\ pc' = "crashed"
            /\ UNCHANGED <<tooltip, alert_layer>>
       ELSE /\ tooltip' = tip
            /\ alert_layer' = features
            /\ map_layers' = map_layers \o Overlays \o <<"alerts", "LayerControl">>
            /\ pc' = "panel"
    /\ UNCHANGED <<county_query, state_query, show_p1h, show_p24h, alerts_geojson,
                   all_features, features, center, panel, map_shown, error_shown,
                   fnVars>>

\* lines 221-230: the entries written before the loop ends or raises
RECURSIVE PanelLoop(_, _, _)
PanelLoop(fs, i, acc) ==
    IF i > Len(fs) THEN [k |-> "list", items |-> acc, crashed |-> FALSE]
    ELSE LET p == Get(fs[i], "properties", EmptyDict) IN
         IF Raised(p) \/ p.k # "map"
         THEN [k |-> "list", items |-> acc, crashed |-> TRUE]
         ELSE PanelLoop(fs, i + 1, Append(acc, fs[i]))

\* lines 205-230
Panel ==
    /\ pc = "panel"
    /\ map_shown' = TRUE
    /\ IF ~Truthy(features)
       THEN panel' = [k |-> "info", items |-> <<>>, crashed |-> FALSE] /\ pc' = "done"
       ELSE LET r == PanelLoop(features.items, 1, <<>>) IN
            /\ panel' = r
            /\ pc' = IF r.crashed THEN "crashed" ELSE "done"
    /\ UNCHANGED <<county_query, state_query, show_p1h, show_p24h, alerts_geojson,
                   all_features, features, center, map_layers, alert_layer,
                   tooltip, error_shown, fnVars>>

Next == FetchReturns \/ FetchRaises \/ Filter \/ Center \/ Layers \/ Panel

Spec == InitRun /\ [][Next]_vars

(***************************************************************************)
(* What the specification says of a feature's geometry, stated without     *)
(* the code: a usable geometry is a Polygon or MultiPolygon whose first    *)
(* ring is a non-empty array of [lon, lat] pairs of numbers, or a Point    *)
(* with such a pair or with no coordinates at all.                         *)
(***************************************************************************)
HasGeometry(f) ==
    f.k = "map" /\ "geometry" \in DOMAIN f.m /\ f.m.geometry.k = "map"

GeomType(f) ==
    IF HasGeometry(f) /\ "type" \in DOMAIN f.m.geometry.m
    THEN f.m.geometry.m.type ELSE JNull

HasCoords(f) == HasGeometry(f) /\ "coordinates" \in DOMAIN f.m.geometry.m
Coords(f) == f.m.geometry.m.coordinates

IsLonLat(v) ==
    v.k = "list" /\ Len(v.items) = 2 /\ \A i \in 1..2 : v.items[i].k = "num"

IsRing(r) == r.k = "list" /\ \A i \in 1..Len(r.items) : IsLonLat(r.items[i])

NonEmptyList(v) == v.k = "list" /\ v.items # <<>>

HasFirstRing(f) ==
    /\ HasCoords(f)
    /\ NonEmptyList(Coords(f))
    /\ IF GeomType(f) = JStr(TPolygon) THEN IsRing(Coords(f).items[1])
       ELSE /\ GeomType(f) = JStr(TMultiPolygon)
            /\ NonEmptyList(Coords(f).items[1])
            /\ IsRing(Coords(f).items[1].items[1])

FirstRing(f) ==
    IF GeomType(f) = JStr(TPolygon) THEN Coords(f).items[1]
    ELSE Coords(f).items[1].items[1]

IsPolygonal(f) == GeomType(f) \in {JStr(TPolygon), JStr(TMultiPolygon)}

UsablePolygon(f) == IsPolygonal(f) /\ HasFirstRing(f) /\ FirstRing(f).items # <<>>

UsablePoint(f) ==
    GeomType(f) = JStr(TPoint) /\ (~HasCoords(f) \/ IsLonLat(Coords(f)))

Usable(f) == UsablePolygon(f) \/ UsablePoint(f)

\* The kinds of feature the specification says are passed over.
UnsupportedType(f) ==
    /\ HasGeometry(f)
    /\ GeomType(f).k = "str"
    /\ GeomType(f) \notin {JStr(TPolygon), JStr(TMultiPolygon), JStr(TPoint)}

NoGeometry(f) ==
    f.k = "map" /\ ("geometry" \notin DOMAIN f.m \/ f.m.geometry = JNull)

EmptyFirstRing(f) == IsPolygonal(f) /\ HasFirstRing(f) /\ FirstRing(f).items = <<>>

PassedOver(f) == UnsupportedType(f) \/ NoGeometry(f) \/ EmptyFirstRing(f)

\* The sum of column idx of a ring as an unreduced fraction <<n, d>>.
RECURSIVE ColumnSum(_, _, _)
ColumnSum(vs, idx, i) ==
    IF i > Len(vs) THEN <<0, 1>>
    ELSE LET rest == ColumnSum(vs, idx, i + 1)
             x == vs[i].items[idx]
         IN <<x.n * rest[2] + rest[1] * x.d, x.d * rest[2]>>

\* x is the arithmetic mean of column idx of the ring
IsMean(x, ring, idx) ==
    /\ x.k = "num"
    /\ LET sum == ColumnSum(ring.items, idx, 1)
       IN x.n * sum[2] * Len(ring.items) = sum[1] * x.d

\* v is the viewport the specification derives from the usable feature f
IsViewOf(v, f) ==
    /\ DOMAIN v = {"lat", "lon", "zoom"}
    /\ v.zoom = FeatureZoom
    /\ IF UsablePolygon(f)
       THEN IsMean(v.lat, FirstRing(f), 2) /\ IsMean(v.lon, FirstRing(f), 1)
       ELSE IF HasCoords(f)
       THEN v.lat = Coords(f).items[2] /\ v.lon = Coords(f).items[1]
       ELSE v.lat = FallbackLat /\ v.lon = FallbackLon

UsableAt(feats) == {i \in 1..Len(feats) : Usable(feats[i])}
FirstUsable(feats) == CHOOSE i \in UsableAt(feats) : \A j \in UsableAt(feats) : i <= j

Without(feats, i) == SubSeq(feats, 1, i - 1) \o SubSeq(feats, i + 1, Len(feats))

(***************************************************************************)
(* Claims about compute_initial_map_center, under SpecCenter.              *)
(***************************************************************************)
CenterCalled == pc = "returned" /\ Len(fn_args) = 1

IsCollection(g) ==
    g.k = "map" /\ "features" \in DOMAIN g.m /\ g.m.features.k = "list"

ArgIsCollection == CenterCalled /\ IsCollection(fn_args[1])
ArgFeatures == fn_args[1].m.features.items

\* The argument is a collection of features, each a mapping.
ArgIsFeatures ==
    ArgIsCollection /\ \A i \in 1..Len(ArgFeatures) : ArgFeatures[i].k = "map"

\* C1: the result is the viewport of the first feature whose geometry is
\* usable, every unusable feature before it (malformed ones included) being
\* passed over; the fallback is returned only when no feature is usable.
C1_FirstUsableWins ==
    ArgIsFeatures =>
        IF UsableAt(ArgFeatures) # {}
        THEN IsViewOf(fn_ret, ArgFeatures[FirstUsable(ArgFeatures)])
        ELSE fn_ret = Fallback

\* C5: every call returns a (latitude, longitude, zoom) triple whose zoom is
\* 4 or 6, whatever the input: no exception leaves the function.
C5_AlwaysATriple ==
    CenterCalled =>
        /\ DOMAIN fn_ret = {"lat", "lon", "zoom"}
        /\ fn_ret.zoom \in {FallbackZoom, FeatureZoom}

\* C5's case: an input on which the body raises, answered by the fallback.
C5_Witness ==
    /\ CenterCalled
    /\ Raised(CenterTry(fn_args[1]))
    /\ fn_ret = Fallback

\* C6: when the first usable feature is a Polygon or MultiPolygon, the result
\* is the mean of its first ring's vertices at zoom 6; and a Polygon or
\* MultiPolygon whose first ring is empty is passed over, the result being
\* what the other features give.
C6_PolygonMean ==
    ArgIsFeatures =>
        /\ (/\ UsableAt(ArgFeatures) # {}
            /\ UsablePolygon(ArgFeatures[FirstUsable(ArgFeatures)]))
           => IsViewOf(fn_ret, ArgFeatures[FirstUsable(ArgFeatures)])
        /\ \A i \in 1..Len(ArgFeatures) :
              EmptyFirstRing(ArgFeatures[i]) =>
                 fn_ret = compute_initial_map_center(
                              FeatureCollection(JList(Without(ArgFeatures, i))))

\* The part of C6 the code keeps: the mean is returned whenever every
\* feature before the polygon is one the loop passes over.
PolygonMeanWhenReached ==
    ArgIsCollection =>
        \A i \in 1..Len(ArgFeatures) :
           (/\ UsablePolygon(ArgFeatures[i])
            /\ \A j \in 1..(i - 1) : PassedOver(ArgFeatures[j]))
           => IsViewOf(fn_ret, ArgFeatures[i])

\* C7: with no feature, or only features of an unsupported type, without
\* geometry or with an empty first ring, the result is the fallback
\* (39.833, -98.583, 4); a feature of an unsupported type does not end the
\* iteration: the result is the one the collection gives without it, and a
\* usable feature that only such features precede determines the result.
C7_FallbackAndSkip ==
    ArgIsCollection =>
        /\ (\A i \in 1..Len(ArgFeatures) : PassedOver(ArgFeatures[i]))
           => fn_ret = Viewport(JRat(39833, 1000), JRat(-98583, 1000), 4)
        /\ \A i \in 1..Len(ArgFeatures) :
              UnsupportedType(ArgFeatures[i]) =>
                 fn_ret = compute_initial_map_center(
                              FeatureCollection(JList(Without(ArgFeatures, i))))
        /\ \A i \in 1..Len(ArgFeatures) :
              (/\ Usable(ArgFeatures[i])
               /\ \A j \in 1..(i - 1) : PassedOver(ArgFeatures[j]))
              => IsViewOf(fn_ret, ArgFeatures[i])

\* C7's case: a LineString first, a usable feature after it, and the result
\* is that feature's viewport.
C7_Witness ==
    /\ ArgIsCollection
    /\ Len(ArgFeatures) = 2
    /\ GeomType(ArgFeatures[1]) = JStr(TLineString)
    /\ Usable(ArgFeatures[2])
    /\ IsViewOf(fn_ret, ArgFeatures[2])

\* C8: when the first usable feature is a Point, the result is
\* (coordinates[1], coordinates[0], 6), the coordinates defaulting to
\* [-98.583, 39.833] when the geometry has none.
C8_PointCoordinates ==
    (/\ ArgIsFeatures
     /\ UsableAt(ArgFeatures) # {}
     /\ UsablePoint(ArgFeatures[FirstUsable(ArgFeatures)]))
    => LET f == ArgFeatures[FirstUsable(ArgFeatures)] IN
       IF HasCoords(f)
       THEN fn_ret = Viewport(Coords(f).items[2], Coords(f).items[1], 6)
       ELSE fn_ret = Viewport(JRat(39833, 1000), JRat(-98583, 1000), 6)

\* The part of C8 the code keeps: the point's coordinates are returned
\* whenever every feature before the point is one the loop passes over.
PointWhenReached ==
    ArgIsCollection =>
        \A i \in 1..Len(ArgFeatures) :
           (/\ UsablePoint(ArgFeatures[i])
            /\ \A j \in 1..(i - 1) : PassedOver(ArgFeatures[j]))
           => IsViewOf(fn_ret, ArgFeatures[i])

(***************************************************************************)
(* Claims about feature_matches_county_state, under SpecMatch.             *)
(***************************************************************************)
MatchCalled == pc = "returned" /\ Len(fn_args) = 3
ArgFeature == fn_args[1]
ArgCounty == fn_args[2]
ArgState == fn_args[3]

\* A query that is empty or absent.
NoQuery(q) == q = JNull \/ q = JStr(<<>>)
BothEmpty == NoQuery(ArgCounty) /\ NoQuery(ArgState)

HasProperties(f) ==
    f.k = "map" /\ "properties" \in DOMAIN f.m /\ f.m.properties.k = "map"
HasAreaDesc(f) == HasProperties(f) /\ "areaDesc" \in DOMAIN f.m.properties.m
AreaDesc(f) == f.m.properties.m.areaDesc

\* The feature's properties are missing or malformed: no properties key,
\* properties null or not a mapping, areaDesc missing, null or not a string.
MalformedProperties(f) ==
    f.k = "map" /\ (~HasAreaDesc(f) \/ AreaDesc(f).k # "str")

\* The feature has a string areaDesc, or none (no properties key, or
\* properties without areaDesc or with a null one).
StringOrAbsentAreaDesc(f) ==
    /\ f.k = "map"
    /\ \/ "properties" \notin DOMAIN f.m
       \/ /\ HasProperties(f)
          /\ (HasAreaDesc(f) => AreaDesc(f).k \in {"str", "null"})

\* lower(areaDesc), a missing areaDesc counting as the empty string
LoweredArea(f) ==
    IF HasAreaDesc(f) /\ AreaDesc(f).k = "str"
    THEN [i \in 1..Len(AreaDesc(f).s) |-> LowerChar(AreaDesc(f).s[i])]
    ELSE <<>>

\* a occurs in b as a run of consecutive characters
Substring(a, b) ==
    \E start \in 1..(Len(b) + 1) :
        /\ start + Len(a) - 1 <= Len(b)
        /\ \A j \in 1..Len(a) : b[start + j - 1] = a[j]

\* trim(s): s without its leading and trailing blanks
Trimmed(s) ==
    LET inner == {i \in 1..Len(s) : s[i] # " "} IN
    IF inner = {} THEN <<>>
    ELSE LET lo == CHOOSE i \in inner : \A j \in inner : i <= j
             hi == CHOOSE i \in inner : \A j \in inner : j <= i
         IN [i \in 1..(hi - lo + 1) |-> s[lo + i - 1]]

LoweredQuery(q) == IF q.k = "str" THEN [i \in 1..Len(q.s) |-> LowerChar(q.s[i])] ELSE <<>>

CountyOK(f, q) ==
    \/ Trimmed(LoweredQuery(q)) = <<>>
    \/ Substring(Trimmed(LoweredQuery(q)), LoweredArea(f))

StateOK(f, q) ==
    \/ NoQuery(q)
    \/ q = JStr(<<"(", "A", "n", "y", ")">>)
    \/ Substring(LoweredQuery(q), LoweredArea(f))

\* The predicate of the specification.
ReferenceMatch(f, cq, sq) ==
    IF NoQuery(cq) /\ NoQuery(sq) THEN TRUE
    ELSE CountyOK(f, cq) /\ StateOK(f, sq)

\* Some query asks for a substring: the county query has a character that is
\* not a blank, or the state query is neither empty nor "(Any)".
AsksForSubstring ==
    \/ Trimmed(LoweredQuery(ArgCounty)) # <<>>
    \/ (~NoQuery(ArgState) /\ ArgState # JStr(AnyLabel))

\* C2: the predicate has no error outcome: every call on a feature returns a
\* boolean, and when a query asks for a substring a feature whose properties
\* are missing or malformed gives false.
C2_NeverRaises ==
    (MatchCalled /\ ArgFeature.k = "map") =>
        /\ ~Raised(fn_ret)
        /\ fn_ret.v \in BOOLEAN
        /\ (AsksForSubstring /\ MalformedProperties(ArgFeature)) => fn_ret.v = FALSE

\* The part of C2 the code keeps: a feature without properties, without
\* areaDesc or with a null areaDesc gives false when a query asks for a
\* substring.
MissingAreaDescIsNoMatch ==
    (/\ MatchCalled
     /\ StringOrAbsentAreaDesc(ArgFeature)
     /\ MalformedProperties(ArgFeature)
     /\ AsksForSubstring)
    => fn_ret = Return(FALSE)

\* C3: with both queries empty the result is true for any feature; for a
\* feature with a string or absent areaDesc the result is that of the
\* specification's predicate: countyOK and stateOK.
C3_MatchesReference ==
    MatchCalled =>
        /\ BothEmpty => fn_ret = Return(TRUE)
        /\ StringOrAbsentAreaDesc(ArgFeature) =>
              /\ ~Raised(fn_ret)
              /\ fn_ret.v = ReferenceMatch(ArgFeature, ArgCounty, ArgState)

\* C3's case: a county query that needs trimming and lower-casing matches,
\* together with a state query, an areaDesc written in another case.
C3_Witness ==
    /\ MatchCalled
    /\ HasAreaDesc(ArgFeature)
    /\ ArgCounty = JStr(<<" ", "X">>)
    /\ ArgState = JStr(<<"T", "X">>)
    /\ AreaDesc(ArgFeature) = JStr(<<"t", "X">>)
    /\ fn_ret = Return(TRUE)

(***************************************************************************)
(* Claims about the script run, under Spec.                                *)
(***************************************************************************)
\* The filter has produced its list.
Filtered == features # Unset

\* The features entry of what the fetch returned ([] when there is none).
FedFeatures ==
    IF alerts_geojson.k = "map" /\ "features" \in DOMAIN alerts_geojson.m
    THEN alerts_geojson.m.features
    ELSE JList(<<>>)

\* sub is a subsequence of full: its elements are elements of full at
\* increasing positions.
IsSubsequence(sub, full) ==
    \E at \in [1..Len(sub) -> 1..Len(full)] :
        /\ \A i \in 1..Len(sub) : sub[i] = full[at[i]]
        /\ \A i, j \in 1..Len(sub) : i < j => at[i] < at[j]

Matches(f) ==
    feature_matches_county_state(f, county_query, state_query) = Return(TRUE)

\* C4: the filtered list is a subsequence of all_features in the same order,
\* holding exactly the features the predicate accepts, duplicates kept; and
\* filtering leaves all_features and its features as the fetch returned them.
C4_FilterSelects ==
    Filtered =>
        /\ all_features = FedFeatures
        /\ all_features.k = "list" /\ features.k = "list"
        /\ IsSubsequence(features.items, all_features.items)
        /\ features.items = SelectSeq(all_features.items, Matches)

\* C4's case: of two different features the filter drops the first and
\* keeps the second.
C4_Witness ==
    /\ pc = "done"
    /\ Len(all_features.items) = 2
    /\ all_features.items[1] # all_features.items[2]
    /\ features.items = <<all_features.items[2]>>

\* A step after the fetch has left a trace.
LaterStepTaken ==
    \/ all_features # Unset \/ features # Unset \/ center # Unset
    \/ map_layers # <<>> \/ alert_layer # Unset \/ tooltip # Unset
    \/ panel # Unset \/ map_shown

\* C9: a fetch that raises is reported and ends the run: no later step has
\* run or can run; and the later steps run only after a fetch that returned.
C9_FetchFailureHalts ==
    /\ error_shown => (pc = "stopped" /\ alerts_geojson = Unset /\ ~LaterStepTaken)
    /\ pc = "stopped" => (error_shown /\ ~ENABLED Next)
    /\ (LaterStepTaken \/ pc \notin {"fetch", "stopped"}) =>
          (alerts_geojson # Unset /\ ~error_shown)

\* C9's case: the fetch raised.
C9_Witness == pc = "stopped" /\ error_shown

\* The viewport, the alert layer and the panel read these lists.
ViewportInput == IF features.items # <<>> THEN features ELSE all_features

\* The part of C10 the code keeps: the viewport is what
\* compute_initial_map_center gives for the filtered features, or for all
\* fetched features when none matches; the alert layer is the filtered list;
\* the panel shows the notice when it is empty and its features otherwise.
ViewportInputWiring ==
    /\ center # Unset =>
          center = compute_initial_map_center(FeatureCollection(ViewportInput))
    /\ alert_layer # Unset => alert_layer = features
    /\ panel # Unset =>
          /\ panel.k = "info" <=> features.items = <<>>
          /\ IsSubsequence(panel.items, features.items)
          /\ pc = "done" /\ panel.k = "list" => panel.items = features.items

\* C10: the viewport is computed from the filtered features when one
\* matches and from all fetched features otherwise, the alert layer and the
\* panel from the filtered list only; so when nothing matches a non-empty
\* feed, the map has no alert polygon, the panel shows the notice, and the
\* map is centred at zoom 6 on the first usable feature of the feed.
C10_ViewportFromAllWhenNoMatch ==
    /\ ViewportInputWiring
    /\ (/\ pc = "done"
        /\ features.items = <<>>
        /\ all_features.items # <<>>
        /\ UsableAt(all_features.items) # {})
       => /\ alert_layer.items = <<>>
          /\ panel.k = "info"
          /\ IsViewOf(center, all_features.items[FirstUsable(all_features.items)])

====
